---- MODULE Spec2Model ----
(***************************************************************************)
(* A model of gomatch: pattern based deep comparison of two JSON           *)
(* documents (JSONMatcher), its value matchers and its path formatter.     *)
(***************************************************************************)
EXTENDS Integers, Sequences, FiniteSets, TLC

VARIABLES
    call,          \* the entry point being invoked: "Match", "pathToString",
                   \* "ValueMatcher.CanMatch" or "ValueMatcher.Match"
    pc,            \* position inside the invoked function
    valueMatcher,  \* JSONMatcher.valueMatcher
    expectedJSON,  \* argument of JSONMatcher.Match
    actualJSON,    \* argument of JSONMatcher.Match
    expected,      \* local of JSONMatcher.Match: the decoded pattern
    actual,        \* local of JSONMatcher.Match: the decoded document
    path,          \* local of JSONMatcher.Match / argument of pathToString
    ok,            \* first return value of JSONMatcher.Match
    err,           \* second return value of JSONMatcher.Match
    str,           \* return value of pathToString
    pArg,          \* argument of ValueMatcher.CanMatch / Match: the pattern
    vArg,          \* argument of ValueMatcher.Match: the value
    can            \* return value of ValueMatcher.CanMatch

vars == <<call, pc, valueMatcher, expectedJSON, actualJSON, expected, actual,
          path, ok, err, str, pArg, vArg, can>>

----------------------------------------------------------------------------
(* Bounds of the model *)

MaxLen == 3        \* longest array of a flat document
MaxPathLen == 3    \* longest path handed to pathToString on its own

----------------------------------------------------------------------------
(* Error values and pattern tokens *)

NoError == "<nil>"                      \* the nil error

errInvalidJSON == "invalid JSON"
errInvalidJSONPattern == "invalid JSON pattern"
errTypesNotEqual == "types are not equal"
errValuesNotEqual == "values are not equal"
errArraysLenNotEqual == "arrays sizes are not equal"
errUnexpectedKey == "unexpected key"
errMatcherNotFound == "none of matchers could be used"
errNotString == "expected string"
errNotNumber == "expected number"
errNotBool == "expected bool"
errNotArray == "expected array"

patternString == "@string@"
patternNumber == "@number@"
patternBool == "@bool@"
patternArray == "@array@"
patternWildcard == "@wildcard@"
patternUnbounded == "@...@"

----------------------------------------------------------------------------
(* Decoded JSON values: what json.Unmarshal stores in an interface{}.      *)
(* kind is the dynamic type: nil, bool, float64, string, []interface{},    *)
(* map[string]interface{}.                                                 *)

Null == [kind |-> "nil"]
Bool(b) == [kind |-> "bool", bool |-> b]
Num(n) == [kind |-> "float64", num |-> n]
Str(s) == [kind |-> "string", str |-> s]
Arr(s) == [kind |-> "[]interface{}", arr |-> s]
Obj(f) == [kind |-> "map[string]interface{}", obj |-> f]

TypeOf(x) == x.kind

(* Path segments: an int appended by deepMatchArray, a string appended by  *)
(* deepMatchMap.                                                           *)
IntSeg(i) == [type |-> "int", int |-> i]
KeySeg(k) == [type |-> "string", string |-> k]

(* The (path, error) pair returned by the engine; fault marks a run-time   *)
(* panic instead of a return.                                              *)
Ret(p, e) == [path |-> p, err |-> e, fault |-> FALSE]
Fault == [path |-> <<>>, err |-> "panic: interface conversion", fault |-> TRUE]

----------------------------------------------------------------------------
(* Value matchers *)

NewStringMatcher(pattern) == [type |-> "StringMatcher", pattern |-> pattern]
NewNumberMatcher(pattern) == [type |-> "NumberMatcher", pattern |-> pattern]
NewBoolMatcher(pattern) == [type |-> "BoolMatcher", pattern |-> pattern]
NewArrayMatcher(pattern) == [type |-> "ArrayMatcher", pattern |-> pattern]
NewWildcardMatcher(pattern) == [type |-> "WildcardMatcher", pattern |-> pattern]
NewChainMatcher(matchers) == [type |-> "ChainMatcher", matchers |-> matchers]

(* an implementation of the ValueMatcher interface from outside the        *)
(* package: the set of patterns its CanMatch accepts and what its Match    *)
(* returns                                                                 *)
ValueMatcher(canMatch, b, e) ==
    [type |-> "ValueMatcher", canMatch |-> canMatch, match |-> [ok |-> b, err |-> e]]

isPattern(p, pattern) == p.kind = "string" /\ p.str = pattern

isUnbounded(p) == isPattern(p, patternUnbounded)

MatchResult(b, e) == [ok |-> b, err |-> e]

StringMatcher_Match(p, v) ==
    IF v.kind = "string" THEN MatchResult(TRUE, NoError)
    ELSE MatchResult(FALSE, errNotString)

NumberMatcher_Match(p, v) ==
    IF v.kind = "float64" THEN MatchResult(TRUE, NoError)
    ELSE MatchResult(FALSE, errNotNumber)

BoolMatcher_Match(p, v) ==
    IF v.kind = "bool" THEN MatchResult(TRUE, NoError)
    ELSE MatchResult(FALSE, errNotBool)

(* mutant of ArrayMatcher_Match: an object passes for an array *)
ArrayMatcher_Match_anyContainer(p, v) ==
    IF v.kind \in {"[]interface{}", "map[string]interface{}"}
    THEN MatchResult(TRUE, NoError)
    ELSE MatchResult(FALSE, errNotArray)

ArrayMatcher_Match(p, v) ==
    IF v.kind = "[]interface{}" THEN MatchResult(TRUE, NoError)
    ELSE MatchResult(FALSE, errNotArray)

WildcardMatcher_Match(p, v) == MatchResult(TRUE, NoError)

RECURSIVE CanMatch(_, _)
RECURSIVE Match(_, _, _)

ChainMatcher_CanMatch(m, p) ==
    \E i \in 1..Len(m.matchers) : CanMatch(m.matchers[i], p)

(* mutant of ChainMatcher_Match: the last matcher able to match is used *)
ChainMatcher_Match_lastWins(m, p, v) ==
    LET able == {i \in 1..Len(m.matchers) : CanMatch(m.matchers[i], p)}
    IN  IF able = {} THEN MatchResult(FALSE, errMatcherNotFound)
        ELSE LET last == CHOOSE i \in able : \A j \in able : i >= j
             IN  Match(m.matchers[last], p, v)

ChainMatcher_Match(m, p, v) ==
    LET able == {i \in 1..Len(m.matchers) : CanMatch(m.matchers[i], p)}
    IN  IF able = {} THEN MatchResult(FALSE, errMatcherNotFound)
        ELSE LET first == CHOOSE i \in able : \A j \in able : i <= j
             IN  Match(m.matchers[first], p, v)

(* Dynamic dispatch through the ValueMatcher interface *)
CanMatch(m, p) ==
    IF m.type = "ChainMatcher" THEN ChainMatcher_CanMatch(m, p)
    ELSE IF m.type = "ValueMatcher" THEN p \in m.canMatch
    ELSE isPattern(p, m.pattern)

Match(m, p, v) ==
    CASE m.type = "ChainMatcher" -> ChainMatcher_Match(m, p, v)
      [] m.type = "StringMatcher" -> StringMatcher_Match(p, v)
      [] m.type = "NumberMatcher" -> NumberMatcher_Match(p, v)
      [] m.type = "BoolMatcher" -> BoolMatcher_Match(p, v)
      [] m.type = "ArrayMatcher" -> ArrayMatcher_Match(p, v)
      [] m.type = "WildcardMatcher" -> WildcardMatcher_Match(p, v)
      [] m.type = "ValueMatcher" -> m.match

----------------------------------------------------------------------------
(* The deep-match engine.  Each operator yields the SET of results the     *)
(* call can return: ranging over a Go map visits its keys in an            *)
(* unspecified order, so deepMatchMap has one run per order.               *)

(* mutant of matchValue: a string is handed to the matcher without asking  *)
(* CanMatch first                                                          *)
matchValue_noCanMatch(m, e, a) ==
    IF e.kind = "string" THEN Ret(<<>>, Match(m, e, a).err)
    ELSE IF e # a THEN Ret(<<>>, errValuesNotEqual)
    ELSE Ret(<<>>, NoError)

(* mutant of matchValue: the matcher is asked about every scalar *)
matchValue_alwaysDelegates(m, e, a) ==
    Ret(<<>>, Match(m, e, a).err)

matchValue(m, e, a) ==
    IF CanMatch(m, e) THEN Ret(<<>>, Match(m, e, a).err)
    ELSE IF e # a THEN Ret(<<>>, errValuesNotEqual)
    ELSE Ret(<<>>, NoError)

(* the orders in which `range` may visit the keys of a map *)
RangeOrders(f) ==
    LET n == Cardinality(DOMAIN f)
    IN  {o \in [1..n -> DOMAIN f] : \A i, j \in 1..n : o[i] = o[j] => i = j}

(* mutant of withSegment: the segment is put in front of the child's path  *)
withSegment_prepend(r, seg) == Ret(<<seg>> \o r.path, r.err)

(* `return append(keyPath, i), err`: the parent adds its segment *)
withSegment(r, seg) == Ret(Append(r.path, seg), r.err)

(* mutants of arraySizeCheck: the unbounded flag is ignored; only a shorter *)
(* actual array is rejected                                                *)
arraySizeCheck_ignoresUnbounded(e, a, unbounded) ==
    IF Len(e) # Len(a)
    THEN Ret(<<>>, errArraysLenNotEqual)
    ELSE Ret(<<>>, NoError)

arraySizeCheck_onlyShorter(e, a, unbounded) ==
    IF ~unbounded /\ Len(e) > Len(a)
    THEN Ret(<<>>, errArraysLenNotEqual)
    ELSE Ret(<<>>, NoError)

(* deepMatchArray after its loop, lines 232-235 *)
arraySizeCheck(e, a, unbounded) ==
    IF ~unbounded /\ Len(e) # Len(a)
    THEN Ret(<<>>, errArraysLenNotEqual)
    ELSE Ret(<<>>, NoError)

(* mutants of mapSizeCheck: the unbounded flag is ignored; only an actual   *)
(* object with fewer keys is rejected                                      *)
mapSizeCheck_ignoresUnbounded(e, a, unbounded) ==
    IF Cardinality(DOMAIN e) # Cardinality(DOMAIN a)
    THEN Ret(<<>>, errUnexpectedKey)
    ELSE Ret(<<>>, NoError)

mapSizeCheck_onlyFewer(e, a, unbounded) ==
    IF ~unbounded /\ Cardinality(DOMAIN e) > Cardinality(DOMAIN a)
    THEN Ret(<<>>, errUnexpectedKey)
    ELSE Ret(<<>>, NoError)

(* deepMatchMap after its loop, lines 255-258 *)
mapSizeCheck(e, a, unbounded) ==
    IF ~unbounded /\ Cardinality(DOMAIN e) # Cardinality(DOMAIN a)
    THEN Ret(<<>>, errUnexpectedKey)
    ELSE Ret(<<>>, NoError)

expectedKeyError(k) == "expected key \"" \o k \o "\""

RECURSIVE deepMatch(_, _, _)
RECURSIVE ArrayLoop(_, _, _, _)
RECURSIVE MapLoop(_, _, _, _, _, _)

(* what a loop iteration does with the results R of its recursive call:    *)
(* a failure returns with the segment added, a success goes on with rest   *)
propagate(R, seg, rest) ==
    {r \in R : r.fault}
    \cup {withSegment(r, seg) : r \in {x \in R : ~x.fault /\ x.err # NoError}}
    \cup (IF \E r \in R : ~r.fault /\ r.err = NoError THEN rest ELSE {})

(* deepMatchArray from the iteration with Go index i on *)
ArrayLoop(m, e, a, i) ==
    IF i = Len(e) THEN {arraySizeCheck(e, a, FALSE)}
    ELSE IF isUnbounded(e[i + 1]) THEN {arraySizeCheck(e, a, TRUE)}
    ELSE IF i = Len(a) THEN {arraySizeCheck(e, a, FALSE)}
    ELSE propagate(deepMatch(m, e[i + 1], a[i + 1]), IntSeg(i),
                   ArrayLoop(m, e, a, i + 1))

(* mutant of deepMatchArray: the lengths are compared before the elements *)
deepMatchArray_sizeFirst(m, e, a) ==
    IF (\A i \in 1..Len(e) : ~isUnbounded(e[i])) /\ Len(e) # Len(a)
    THEN {Ret(<<>>, errArraysLenNotEqual)}
    ELSE ArrayLoop(m, e, a, 0)

deepMatchArray(m, e, a) == ArrayLoop(m, e, a, 0)

(* mutant of MapLoop: the unbounded key ends the loop, as the unbounded    *)
(* element does in deepMatchArray                                          *)
MapLoop_breakOnUnbounded(m, e, a, order, j, unbounded) ==
    IF j > Len(order) THEN {mapSizeCheck(e, a, unbounded)}
    ELSE LET k == order[j]
         IN  IF isUnbounded(Str(k)) THEN {mapSizeCheck(e, a, TRUE)}
             ELSE IF k \notin DOMAIN a THEN {Ret(<<>>, expectedKeyError(k))}
             ELSE propagate(deepMatch(m, e[k], a[k]), KeySeg(k),
                            MapLoop(m, e, a, order, j + 1, unbounded))

(* deepMatchMap from the j-th visited key on, for one visiting order *)
MapLoop(m, e, a, order, j, unbounded) ==
    IF j > Len(order) THEN {mapSizeCheck(e, a, unbounded)}
    ELSE LET k == order[j]
         IN  IF isUnbounded(Str(k)) THEN MapLoop(m, e, a, order, j + 1, TRUE)
             ELSE IF k \notin DOMAIN a THEN {Ret(<<>>, expectedKeyError(k))}
             ELSE propagate(deepMatch(m, e[k], a[k]), KeySeg(k),
                            MapLoop(m, e, a, order, j + 1, unbounded))

deepMatchMap(m, e, a) ==
    UNION {MapLoop(m, e, a, order, 1, FALSE) : order \in RangeOrders(e)}

(* mutant of deepMatch: the kinds are compared whatever the matcher says   *)
deepMatch_strictKinds(m, e, a) ==
    IF TypeOf(e) # TypeOf(a)
    THEN {Ret(<<>>, errTypesNotEqual)}
    ELSE CASE e.kind = "[]interface{}" -> deepMatchArray(m, e.arr, a.arr)
           [] e.kind = "map[string]interface{}" -> deepMatchMap(m, e.obj, a.obj)
           [] OTHER -> {matchValue(m, e, a)}

deepMatch(m, e, a) ==
    IF TypeOf(e) # TypeOf(a) /\ ~CanMatch(m, e)
    THEN {Ret(<<>>, errTypesNotEqual)}
    ELSE CASE e.kind = "[]interface{}" ->
                IF a.kind # "[]interface{}" THEN {Fault}
                ELSE deepMatchArray(m, e.arr, a.arr)
           [] e.kind = "map[string]interface{}" ->
                IF a.kind # "map[string]interface{}" THEN {Fault}
                ELSE deepMatchMap(m, e.obj, a.obj)
           [] OTHER -> {matchValue(m, e, a)}

----------------------------------------------------------------------------
(* Path formatting *)

RECURSIVE pathLoop(_, _, _)
(* the loop of pathToString with index i (1-based) and buffer b *)
pathLoop(p, i, b) ==
    IF i < 1 THEN b
    ELSE LET v == p[i]
         IN  IF v.type = "int"
             THEN pathLoop(p, i - 1, b \o "[" \o ToString(v.int) \o "]")
             ELSE pathLoop(p, i - 1,
                           (IF Len(b) > 0 THEN b \o "." ELSE b) \o v.string)

pathToString(p) == pathLoop(p, Len(p), "")

----------------------------------------------------------------------------
(* JSON texts.  A text is abstracted to what encoding/json makes of it:    *)
(* a syntax error, or the decoded value.                                   *)

Malformed == [valid |-> FALSE]
Text(v) == [valid |-> TRUE, doc |-> v]

Unmarshal(text) ==
    IF text.valid THEN [err |-> NoError, v |-> text.doc]
    ELSE [err |-> "invalid character", v |-> Null]

----------------------------------------------------------------------------
(* The inputs the model ranges over *)

Leaves == {Null, Bool(TRUE), Num(1), Num(2), Str("x"), Str(patternUnbounded),
           Str(patternWildcard), Str(patternString), Str(patternArray)}

ArrElems == {Num(1), Num(2), Str(patternUnbounded)}
ObjKeys == {"a", "b", patternUnbounded}
ObjVals == {Num(1), Num(2), Str(patternWildcard)}

FlatArrays == {Arr(s) : s \in UNION {[1..n -> ArrElems] : n \in 0..MaxLen}}
FlatObjects == {Obj(f) : f \in UNION {[K -> ObjVals] : K \in SUBSET ObjKeys}}
FlatDocs == Leaves \cup FlatArrays \cup FlatObjects

(* nested documents: each level wraps the level below in an array or an    *)
(* object, next to a sibling                                               *)
Wrap(S) == {Arr(<<Num(1), x>>) : x \in S}
           \cup {Obj("a" :> x) : x \in S}
           \cup {Obj(("a" :> Num(1)) @@ ("" :> x)) : x \in S}
Core == {Num(1), Num(2), Str(patternWildcard)}
Deep1 == Wrap(Core)
Deep2 == Wrap(Deep1)
Deep3 == Wrap(Deep2)
DeepDocs == Deep1 \cup Deep2 \cup Deep3

TestMatcher == NewWildcardMatcher(patternWildcard)
KindChain == NewChainMatcher(<<NewStringMatcher(patternString),
                               NewNumberMatcher(patternNumber),
                               NewBoolMatcher(patternBool),
                               NewArrayMatcher(patternArray),
                               NewWildcardMatcher(patternWildcard)>>)
Matchers == {TestMatcher, KindChain}

(* the matchers, patterns and values of the calls made on a value matcher  *)
(* alone: the kind matchers with the token of their tests, chains whose    *)
(* constituents share a token, nested chains and the empty chain           *)
patternOfTests == "@pattern@"
KindMatchers == {NewStringMatcher(patternOfTests), NewNumberMatcher(patternOfTests),
                 NewBoolMatcher(patternOfTests), NewArrayMatcher(patternOfTests),
                 NewWildcardMatcher(patternOfTests)}
StringThenNumber == NewChainMatcher(<<NewStringMatcher(patternOfTests),
                                      NewNumberMatcher(patternOfTests)>>)
NumberThenString == NewChainMatcher(<<NewNumberMatcher(patternOfTests),
                                      NewStringMatcher(patternOfTests)>>)
Chains == {KindChain, StringThenNumber, NumberThenString,
           NewChainMatcher(<<>>),
           NewChainMatcher(<<NewBoolMatcher(patternBool), StringThenNumber,
                             NewWildcardMatcher(patternOfTests)>>),
           NewChainMatcher(<<NewChainMatcher(<<>>), NumberThenString>>),
           NewChainMatcher(<<NewChainMatcher(<<NewBoolMatcher(patternBool)>>),
                             NewArrayMatcher(patternOfTests),
                             StringThenNumber>>)}
MatchersAlone == KindMatchers \cup Chains
PatternArgs == {Null, Bool(TRUE), Num(1), Str(patternOfTests), Str("@pattern"),
                Str(patternBool), Str(patternString), Str(patternWildcard),
                Str(""), Arr(<<>>), Arr(<<Str(patternOfTests)>>),
                Obj(patternOfTests :> Str(patternOfTests))}
ValueArgs == {Null, Bool(TRUE), Bool(FALSE), Num(1), Str("some string"),
              Str(patternOfTests), Arr(<<>>), Arr(<<Num(1), Num(2)>>),
              Obj(<<>>), Obj("a" :> Num(1))}

(* matchers implemented outside the package, handed to NewJSONMatcher, and *)
(* the documents they are run on                                          *)
patternCustom == "@custom@"
errCustom == "custom error"
CustomPatterns == {{Str(patternCustom)},
                   {Str(patternCustom), Arr(<<Num(1), Num(2)>>)},
                   {Obj("a" :> Num(1)), Num(2)}}
CustomMatchers == {ValueMatcher(c, b, e) :
                      c \in CustomPatterns, b \in BOOLEAN, e \in {NoError, errCustom}}
CustomDocs == {Null, Num(1), Num(2), Str("x"), Str(patternCustom),
               Arr(<<Num(1), Num(2)>>), Arr(<<Str(patternCustom)>>),
               Arr(<<Num(1), Str(patternCustom)>>),
               Arr(<<Arr(<<Num(1), Num(2)>>), Num(1)>>),
               Obj("a" :> Num(1)), Obj("a" :> Str(patternCustom)),
               Obj(("a" :> Num(1)) @@ ("b" :> Str(patternCustom))),
               Obj("b" :> Obj("a" :> Num(1)))}

Segments == {IntSeg(0), IntSeg(1), KeySeg("a"), KeySeg("b"), KeySeg("")}
Paths == UNION {[1..n -> Segments] : n \in 0..MaxPathLen}

----------------------------------------------------------------------------
(* The state machine: one invocation of an entry point per behaviour *)

Init ==
    /\ pc = "start"
    /\ expected = Null /\ actual = Null
    /\ ok = FALSE /\ err = NoError /\ str = "" /\ can = FALSE
    /\ \/ /\ call = "Match"
          /\ path = <<>>
          /\ pArg = Null /\ vArg = Null
          /\ \/ /\ valueMatcher \in Matchers
                /\ expectedJSON \in {Text(v) : v \in FlatDocs}
                /\ actualJSON \in {Text(v) : v \in FlatDocs}
             \/ /\ valueMatcher = TestMatcher
                /\ expectedJSON \in {Text(v) : v \in DeepDocs}
                /\ actualJSON \in {Text(v) : v \in DeepDocs}
             \/ /\ valueMatcher = TestMatcher
                /\ \/ /\ expectedJSON = Malformed
                      /\ actualJSON \in {Malformed} \cup {Text(v) : v \in FlatDocs}
                   \/ /\ expectedJSON \in {Text(v) : v \in FlatDocs}
                      /\ actualJSON = Malformed
       \/ /\ call \in {"ValueMatcher.CanMatch", "ValueMatcher.Match"}
          /\ valueMatcher \in MatchersAlone
          /\ pArg \in PatternArgs
          /\ vArg \in IF call = "ValueMatcher.Match" THEN ValueArgs ELSE {Null}
          /\ path = <<>>
          /\ expectedJSON = Malformed /\ actualJSON = Malformed
       \/ /\ call = "pathToString"
          /\ path \in Paths
          /\ pArg = Null /\ vArg = Null
          /\ valueMatcher = TestMatcher
          /\ expectedJSON = Malformed /\ actualJSON = Malformed

(* mutant of Decode: the actual text is checked first *)
Decode_actualFirst ==
    /\ call = "Match" /\ pc = "start"
    /\ LET e == Unmarshal(expectedJSON)
           a == Unmarshal(actualJSON)
       IN  IF a.err # NoError
           THEN /\ ok' = FALSE /\ err' = errInvalidJSON
                /\ pc' = "done"
                /\ UNCHANGED <<expected, actual>>
           ELSE IF e.err # NoError
           THEN /\ ok' = FALSE /\ err' = errInvalidJSONPattern
                /\ pc' = "done"
                /\ UNCHANGED <<expected, actual>>
           ELSE /\ expected' = e.v /\ actual' = a.v
                /\ pc' = "deepMatch"
                /\ UNCHANGED <<ok, err>>
    /\ UNCHANGED <<call, valueMatcher, expectedJSON, actualJSON, path, str,
                   pArg, vArg, can>>

(* JSONMatcher.Match, lines 179-187: decode both texts *)
Decode ==
    /\ call = "Match" /\ pc = "start"
    /\ LET e == Unmarshal(expectedJSON)
           a == Unmarshal(actualJSON)
       IN  IF e.err # NoError
           THEN /\ ok' = FALSE /\ err' = errInvalidJSONPattern
                /\ pc' = "done"
                /\ UNCHANGED <<expected, actual>>
           ELSE IF a.err # NoError
           THEN /\ ok' = FALSE /\ err' = errInvalidJSON
                /\ pc' = "done"
                /\ expected' = e.v
                /\ UNCHANGED actual
           ELSE /\ expected' = e.v /\ actual' = a.v
                /\ pc' = "deepMatch"
                /\ UNCHANGED <<ok, err>>
    /\ UNCHANGED <<call, valueMatcher, expectedJSON, actualJSON, path, str,
                   pArg, vArg, can>>

(* JSONMatcher.Match, lines 188-195: run the engine and build the result *)
DeepMatch ==
    /\ call = "Match" /\ pc = "deepMatch"
    /\ \E r \in deepMatch(valueMatcher, expected, actual) :
          IF r.fault
          THEN /\ pc' = "panic"
               /\ UNCHANGED <<path, ok, err>>
          ELSE /\ path' = r.path
               /\ pc' = "done"
               /\ IF r.err # NoError
                  THEN /\ ok' = FALSE
                       /\ err' = IF Len(r.path) > 0
                                 THEN r.err \o " at path: " \o pathToString(r.path)
                                 ELSE r.err
                  ELSE /\ ok' = TRUE /\ err' = NoError
    /\ UNCHANGED <<call, valueMatcher, expectedJSON, actualJSON, expected,
                   actual, str, pArg, vArg, can>>

(* a call of pathToString on its own *)
PathToString ==
    /\ call = "pathToString" /\ pc = "start"
    /\ str' = pathToString(path)
    /\ pc' = "done"
    /\ UNCHANGED <<call, valueMatcher, expectedJSON, actualJSON, expected,
                   actual, path, ok, err, pArg, vArg, can>>

(* a call of CanMatch on a value matcher on its own *)
ValueMatcher_CanMatch ==
    /\ call = "ValueMatcher.CanMatch" /\ pc = "start"
    /\ can' = CanMatch(valueMatcher, pArg)
    /\ pc' = "done"
    /\ UNCHANGED <<call, valueMatcher, expectedJSON, actualJSON, expected,
                   actual, path, ok, err, str, pArg, vArg>>

(* a call of Match on a value matcher on its own *)
ValueMatcher_Match ==
    /\ call = "ValueMatcher.Match" /\ pc = "start"
    /\ LET r == Match(valueMatcher, pArg, vArg)
       IN  ok' = r.ok /\ err' = r.err
    /\ pc' = "done"
    /\ UNCHANGED <<call, valueMatcher, expectedJSON, actualJSON, expected,
                   actual, path, str, pArg, vArg, can>>

Next ==
    \/ Decode \/ DeepMatch \/ PathToString
    \/ ValueMatcher_CanMatch \/ ValueMatcher_Match

Spec == Init /\ [][Next]_vars

(* JSONMatcher.Match on a matcher built by NewJSONMatcher from a           *)
(* ValueMatcher implemented outside the package                            *)
InitCustom ==
    /\ pc = "start"
    /\ call = "Match"
    /\ valueMatcher \in CustomMatchers
    /\ expectedJSON \in {Text(v) : v \in CustomDocs}
    /\ actualJSON \in {Text(v) : v \in CustomDocs}
    /\ expected = Null /\ actual = Null
    /\ path = <<>> /\ ok = FALSE /\ err = NoError /\ str = "" /\ can = FALSE
    /\ pArg = Null /\ vArg = Null

NextCustom == Decode \/ DeepMatch

SpecCustom == InitCustom /\ [][NextCustom]_vars

----------------------------------------------------------------------------
(* Properties *)

(* both texts decoded and the engine has returned *)
Compared ==
    /\ call = "Match" /\ pc = "done"
    /\ expectedJSON.valid /\ actualJSON.valid

IsArr(x) == x.kind = "[]interface{}"
IsObj(x) == x.kind = "map[string]interface{}"

(* x matches y: every run of the engine on (x, y) returns no error *)
matches(x, y) ==
    \A r \in deepMatch(valueMatcher, x, y) : ~r.fault /\ r.err = NoError

Min(x, y) == IF x < y THEN x ELSE y

HasMarker(e) == \E i \in 1..Len(e) : isUnbounded(e[i])

(* Go index of the first element equal to "@...@" *)
MarkerAt(e) ==
    (CHOOSE i \in 1..Len(e) :
        isUnbounded(e[i]) /\ \A j \in 1..(i - 1) : ~isUnbounded(e[j])) - 1

C2_BoundedArrayLength ==
    (Compared /\ IsArr(expected) /\ IsArr(actual) /\ ~HasMarker(expected.arr)) =>
        LET e == expected.arr
            a == actual.arr
        IN  /\ Len(e) # Len(a) => (~ok /\ err # NoError)
            /\ (Len(e) # Len(a)
                /\ \A i \in 1..Min(Len(e), Len(a)) : matches(e[i], a[i]))
                 => (err = errArraysLenNotEqual /\ path = <<>>)

C2_Witness ==
    /\ Compared /\ IsArr(expected) /\ IsArr(actual)
    /\ ~HasMarker(expected.arr)
    /\ Len(expected.arr) > 0
    /\ Len(actual.arr) > Len(expected.arr)
    /\ ~ok /\ err = errArraysLenNotEqual

(* the message of a missing key k *)
MissingKey(k) == "expected key \"" \o k \o "\""

Restrict(f, K) == [k \in K |-> f[k]]

(* the key of the outermost segment of the returned path *)
OuterKey == path[Len(path)].string

(* a required key is missing: the match fails, either with the bare        *)
(* message of a missing key, or with the mismatch of a key visited before  *)
MissingKeyFails(e, a, required) ==
    LET missing == required \ DOMAIN a
    IN  missing # {} =>
          /\ ~ok
          /\ IF path = <<>>
             THEN \E k \in missing : err = MissingKey(k)
             ELSE /\ path[Len(path)].type = "string"
                  /\ OuterKey \in required \cap DOMAIN a
                  /\ ~matches(e[OuterKey], a[OuterKey])
          /\ (\A k \in required \cap DOMAIN a : matches(e[k], a[k]))
                => path = <<>>

C5_KeyOrderIrrelevant ==
    Compared =>
        \A r \in deepMatch(valueMatcher, expected, actual) :
            ok = (r.err = NoError)

(* two visiting orders meet different mismatches, and both fail *)
C5_Witness ==
    /\ Compared /\ IsObj(expected) /\ IsObj(actual)
    /\ Cardinality(DOMAIN expected.obj) >= 2
    /\ Cardinality(deepMatch(valueMatcher, expected, actual)) >= 2
    /\ ~ok

(* C6: for fixed inputs and matcher every invocation returns the same      *)
(* success flag, the same terminal error and the same path.                *)
C6_Deterministic ==
    Compared =>
        \A r \in deepMatch(valueMatcher, expected, actual) :
            /\ ok = (r.err = NoError)
            /\ path = r.path
            /\ ~ok => err = (IF Len(r.path) > 0
                             THEN r.err \o " at path: " \o pathToString(r.path)
                             ELSE r.err)

NotFound == [found |-> FALSE]

RECURSIVE Locate(_, _, _)
(* the pair of positions of (e, a) that the path p leads to, read from its *)
(* last (outermost) segment to its first: an index steps into two arrays,  *)
(* a key into two objects                                                  *)
Locate(e, a, p) ==
    IF p = <<>> THEN [found |-> TRUE, e |-> e, a |-> a]
    ELSE LET s == p[Len(p)]
             rest == SubSeq(p, 1, Len(p) - 1)
         IN  IF s.type = "int"
             THEN IF /\ IsArr(e) /\ IsArr(a)
                     /\ s.int >= 0 /\ s.int < Len(e.arr) /\ s.int < Len(a.arr)
                  THEN Locate(e.arr[s.int + 1], a.arr[s.int + 1], rest)
                  ELSE NotFound
             ELSE IF /\ IsObj(e) /\ IsObj(a)
                     /\ s.string \in DOMAIN e.obj /\ s.string \in DOMAIN a.obj
                  THEN Locate(e.obj[s.string], a.obj[s.string], rest)
                  ELSE NotFound

(* the errors the engine and the matchers end with *)
TerminalErrors ==
    {errTypesNotEqual, errValuesNotEqual, errArraysLenNotEqual,
     errUnexpectedKey, errMatcherNotFound, errNotString, errNotNumber,
     errNotBool, errNotArray}
    \cup {MissingKey(k) : k \in ObjKeys \cup {""}}

(* the message Match returns for a terminal error t found at path p *)
AtPath(t, p) ==
    IF p = <<>> THEN t ELSE t \o " at path: " \o pathToString(p)

(* C7: the path of a failed match has one segment for each container       *)
(* between the root and the position whose own check failed, innermost     *)
(* first; the message is the terminal error, followed by " at path: " and  *)
(* the formatted path exactly when the path is not empty.                  *)
C7_MismatchPath ==
    (Compared /\ ~ok) =>
        LET at == Locate(expected, actual, path)
        IN  /\ at.found
            /\ \E t \in TerminalErrors :
                 /\ Ret(<<>>, t) \in deepMatch(valueMatcher, at.e, at.a)
                 /\ err = AtPath(t, path)
            /\ (err \in TerminalErrors) = (path = <<>>)

C7_Witness ==
    /\ Compared /\ ~ok
    /\ path = <<KeySeg("a"), IntSeg(1), KeySeg("a")>>
    /\ err = "values are not equal at path: a[1].a"

(* the rendering C8 describes, from the outermost segment (the last of p)  *)
(* to the innermost: an index is "[N]", a key is the bare key, after a "." *)
(* unless it is the first segment rendered                                 *)
RECURSIVE Rendered(_, _)
Rendered(p, i) ==
    IF i < 1 THEN ""
    ELSE (IF p[i].type = "int" THEN "[" \o ToString(p[i].int) \o "]"
          ELSE (IF i < Len(p) THEN "." ELSE "") \o p[i].string)
         \o Rendered(p, i - 1)

(* C8: pathToString renders a path that way, whatever its keys are. *)
C8_PathFormat ==
    /\ (call = "pathToString" /\ pc = "done") => str = Rendered(path, Len(path))
    /\ (Compared /\ ~ok /\ path # <<>>) =>
          \E t \in TerminalErrors :
             err = t \o " at path: " \o Rendered(path, Len(path))

(* C9: a pattern text that does not decode yields "invalid JSON pattern"   *)
(* whatever the actual text is; a decoded pattern with an actual text that *)
(* does not decode yields "invalid JSON"; the engine is not run and no     *)
(* path is attached.                                                       *)
C9_DecodeOrder ==
    (call = "Match" /\ (~expectedJSON.valid \/ ~actualJSON.valid)) =>
        /\ pc \in {"start", "done"}
        /\ path = <<>>
        /\ pc = "done" =>
              /\ ~ok
              /\ err = (IF ~expectedJSON.valid THEN errInvalidJSONPattern
                        ELSE errInvalidJSON)

C9_Witness ==
    /\ call = "Match" /\ pc = "done"
    /\ ~expectedJSON.valid /\ ~actualJSON.valid
    /\ ~ok /\ err = errInvalidJSONPattern

(* C10: the position where a failed match ended has "types are not equal"  *)
(* as its error exactly when its two values differ in kind and the matcher *)
(* does not recognize the expected one; a recognized expected value is     *)
(* decided by the matcher alone, so the wildcard token at the root matches *)
(* every document.                                                         *)
C10_KindGuard ==
    Compared =>
        LET recognized == CanMatch(valueMatcher, expected)
            differ == TypeOf(expected) # TypeOf(actual)
            at == Locate(expected, actual, path)
        IN  /\ (err = errTypesNotEqual) = (differ /\ ~recognized)
            /\ ~ok =>
                  /\ at.found
                  /\ (err = AtPath(errTypesNotEqual, path))
                       = (TypeOf(at.e) # TypeOf(at.a)
                          /\ ~CanMatch(valueMatcher, at.e))
            /\ recognized =>
                  /\ ok = Match(valueMatcher, expected, actual).ok
                  /\ err = Match(valueMatcher, expected, actual).err
                  /\ path = <<>>
            /\ expected = Str(patternWildcard) => ok

C10_Witness ==
    /\ Compared
    /\ expected = Str(patternWildcard)
    /\ IsObj(actual) /\ DOMAIN actual.obj # {}
    /\ ok /\ err = NoError

IsScalar(x) == ~IsArr(x) /\ ~IsObj(x)

(* C11: a scalar expected value the matcher does not recognize, a token of *)
(* an absent matcher included, matches only the same kind and value, and   *)
(* against another value of its kind fails with "values are not equal";    *)
(* Match never returns "none of matchers could be used".                   *)
C11_LiteralScalars ==
    /\ (Compared /\ IsScalar(expected) /\ ~CanMatch(valueMatcher, expected)) =>
          /\ ok = (TypeOf(expected) = TypeOf(actual) /\ expected = actual)
          /\ (TypeOf(expected) = TypeOf(actual) /\ expected # actual)
                => (err = errValuesNotEqual /\ path = <<>>)
    /\ (call = "Match" /\ pc = "done") =>
          err # AtPath(errMatcherNotFound, path)

C11_Witness ==
    /\ Compared
    /\ valueMatcher = TestMatcher
    /\ expected = Str(patternString) /\ actual = Str("x")
    /\ ~ok /\ err = errValuesNotEqual

(* a call made on a value matcher alone has returned *)
Answered(fn) == call = fn /\ pc = "done"

IsChain(m) == m.type = "ChainMatcher"

(* what C13 says of a primitive matcher m: the patterns it recognizes, the *)
(* kinds it accepts and the kind its error names                           *)
Recognizes(m, q) == q.kind = "string" /\ q.str = m.pattern

AcceptedKinds(m) ==
    CASE m.type = "StringMatcher" -> {"string"}
      [] m.type = "NumberMatcher" -> {"float64"}
      [] m.type = "BoolMatcher" -> {"bool"}
      [] m.type = "ArrayMatcher" -> {"[]interface{}"}
      [] m.type = "WildcardMatcher" ->
            {"nil", "bool", "float64", "string", "[]interface{}",
             "map[string]interface{}"}

KindName(m) ==
    CASE m.type = "StringMatcher" -> "string"
      [] m.type = "NumberMatcher" -> "number"
      [] m.type = "BoolMatcher" -> "bool"
      [] m.type = "ArrayMatcher" -> "array"
      [] OTHER -> "anything"

Verdict(m, x) ==
    IF x.kind \in AcceptedKinds(m) THEN [ok |-> TRUE, err |-> NoError]
    ELSE [ok |-> FALSE, err |-> "expected " \o KindName(m)]

RECURSIVE Flatten(_)
RECURSIVE FlattenFrom(_, _)
(* the primitive matchers of m in the order a chain consults them *)
FlattenFrom(ms, i) ==
    IF i > Len(ms) THEN <<>> ELSE Flatten(ms[i]) \o FlattenFrom(ms, i + 1)
Flatten(m) == IF IsChain(m) THEN FlattenFrom(m.matchers, 1) ELSE <<m>>

(* C12: a chain can match p exactly when a constituent can; its Match      *)
(* returns the result of the first constituent, in configured order, that  *)
(* can match p, and "none of matchers could be used" when none can; with   *)
(* chains as constituents the first primitive matcher in order decides.    *)
C12_ChainFirstWins ==
    ((Answered("ValueMatcher.CanMatch") \/ Answered("ValueMatcher.Match"))
       /\ IsChain(valueMatcher)) =>
        LET ms == valueMatcher.matchers
            able == {i \in 1..Len(ms) : CanMatch(ms[i], pArg)}
            first == CHOOSE i \in able : \A j \in able : i <= j
            prims == Flatten(valueMatcher)
            ableP == {i \in 1..Len(prims) : Recognizes(prims[i], pArg)}
            firstP == CHOOSE i \in ableP : \A j \in ableP : i <= j
        IN  /\ (able = {}) = (ableP = {})
            /\ call = "ValueMatcher.CanMatch" => can = (able # {})
            /\ call = "ValueMatcher.Match" =>
                  IF able = {}
                  THEN ~ok /\ err = errMatcherNotFound
                  ELSE /\ [ok |-> ok, err |-> err] = Match(ms[first], pArg, vArg)
                       /\ [ok |-> ok, err |-> err] = Verdict(prims[firstP], vArg)

(* the first of two matchers of one token rejects a value the second takes *)
C12_Witness ==
    /\ Answered("ValueMatcher.Match")
    /\ valueMatcher = StringThenNumber
    /\ pArg = Str(patternOfTests) /\ vArg = Num(1)
    /\ ~ok /\ err = errNotString

(* C13: a String, Number, Bool, Array or Wildcard matcher can match p      *)
(* exactly when p is the string of its token; its Match does not depend on *)
(* p and returns (true, nil) exactly for a value of its kind (any value    *)
(* for Wildcard), else (false, "expected <kind>").                         *)
C13_PrimitiveMatchers ==
    /\ (Answered("ValueMatcher.CanMatch") /\ ~IsChain(valueMatcher)) =>
          can = Recognizes(valueMatcher, pArg)
    /\ (Answered("ValueMatcher.Match") /\ ~IsChain(valueMatcher)) =>
          /\ [ok |-> ok, err |-> err] = Verdict(valueMatcher, vArg)
          /\ (ok = FALSE) = (err # NoError)
          /\ \A q \in PatternArgs :
                Match(valueMatcher, q, vArg) = [ok |-> ok, err |-> err]

C13_Witness ==
    /\ Answered("ValueMatcher.Match")
    /\ valueMatcher = NewArrayMatcher(patternOfTests)
    /\ pArg = Null /\ IsObj(vArg)
    /\ ~ok /\ err = "expected array"

RECURSIVE HasRecognized(_, _)
(* v holds, as a value at some depth, something the matcher m recognizes *)
HasRecognized(m, v) ==
    IF IsArr(v) THEN \E i \in 1..Len(v.arr) : HasRecognized(m, v.arr[i])
    ELSE IF IsObj(v) THEN \E k \in DOMAIN v.obj : HasRecognized(m, v.obj[k])
    ELSE CanMatch(m, v)

(* C14: a value that holds nothing the configured matcher recognizes       *)
(* matches itself, with no error and an empty path; the unbounded marker   *)
(* as an element or a key does not change that.                            *)
C14_Reflexive ==
    (Compared /\ expected = actual /\ ~HasRecognized(valueMatcher, expected)) =>
        (ok /\ err = NoError /\ path = <<>>)

C14_Witness ==
    /\ Compared /\ expected = actual /\ valueMatcher = KindChain
    /\ IsObj(expected)
    /\ patternUnbounded \in DOMAIN expected.obj
    /\ Cardinality(DOMAIN expected.obj) >= 2
    /\ ok /\ err = NoError

(* the number of leading positions of e that deepMatchArray compares with a *)
ComparedLen(e, a) == Min(IF HasMarker(e) THEN MarkerAt(e) ELSE Len(e), Len(a))

(* the Go indices among them at which the elements do not match *)
BadIndices(e, a) ==
    {i \in 0..(ComparedLen(e, a) - 1) : ~matches(e[i + 1], a[i + 1])}

(* C16: in an array the failure reported is that of the smallest compared  *)
(* index whose elements do not match, with that index as the segment the   *)
(* array adds to the path; "arrays sizes are not equal" is returned only    *)
(* when every compared element matched.                                    *)
C16_ArrayFailFast ==
    (Compared /\ IsArr(expected) /\ IsArr(actual)) =>
        LET e == expected.arr
            a == actual.arr
            bad == BadIndices(e, a)
            i == CHOOSE x \in bad : \A y \in bad : x <= y
        IN  /\ bad # {} =>
                  /\ ~ok
                  /\ path # <<>> /\ path[Len(path)] = IntSeg(i)
                  /\ \E r \in deepMatch(valueMatcher, e[i + 1], a[i + 1]) :
                        /\ r.err # NoError
                        /\ path = Append(r.path, IntSeg(i))
                        /\ err = AtPath(r.err, path)
            /\ bad = {} => path = <<>>
            /\ err = errArraysLenNotEqual => bad = {}

(* two elements differ and the lengths differ: the first element is reported *)
C16_Witness ==
    /\ Compared /\ IsArr(expected) /\ IsArr(actual)
    /\ ~HasMarker(expected.arr)
    /\ Len(expected.arr) # Len(actual.arr)
    /\ Cardinality(BadIndices(expected.arr, actual.arr)) >= 2
    /\ ~ok /\ path = <<IntSeg(0)>>

RECURSIVE SaidFalse(_, _, _)
(* among the positions a successful run of deepMatch compares, one at      *)
(* which the matcher m is consulted and its Match returns false            *)
SaidFalse(m, e, a) ==
    IF IsArr(e) /\ IsArr(a)
    THEN \E i \in 1..ComparedLen(e.arr, a.arr) : SaidFalse(m, e.arr[i], a.arr[i])
    ELSE IF IsObj(e) /\ IsObj(a)
    THEN \E k \in (DOMAIN e.obj \cap DOMAIN a.obj) \ {patternUnbounded} :
            SaidFalse(m, e.obj[k], a.obj[k])
    ELSE IsScalar(e) /\ CanMatch(m, e) /\ ~Match(m, e, a).ok

(* C15: whatever the ValueMatcher, a position whose expected node it       *)
(* recognizes matches exactly when its Match returns true; Match returns   *)
(* (true, nil) only when every consulted matcher returned true, and        *)
(* otherwise false with a non-nil error.                                   *)
C15_VerdictPropagated ==
    Compared =>
        /\ (IsScalar(expected) /\ CanMatch(valueMatcher, expected)) =>
              ok = Match(valueMatcher, expected, actual).ok
        /\ ok => ~SaidFalse(valueMatcher, expected, actual)
        /\ ok = (err = NoError)

(* C17: whatever the documents and the ValueMatcher, deepMatch returns a   *)
(* path and an error: the type assertions on actual are reached only with  *)
(* an actual value of the asserted type.                                   *)
C17_NoFault ==
    /\ pc # "panic"
    /\ (call = "Match" /\ pc = "deepMatch") =>
          \A r \in deepMatch(valueMatcher, expected, actual) : ~r.fault

====
